---- MODULE Spec2Model ----
(***************************************************************************)
(* Model of the contribution scoring engine of my_proof:                   *)
(*   - Proof.generate and the scoring functions of src/my_proof/proof.py   *)
(*   - extract_input of src/my_proof/__main__.py                           *)
(*                                                                         *)
(* Numbers.  The program computes with Python floats.  Every score is a    *)
(* quotient of small integers, so the model keeps scores as exact          *)
(* rationals <<num, den>> (den > 0, lowest terms).                         *)
(*                                                                         *)
(* Exceptions.  A Python call either returns a value or raises.  An        *)
(* operator that models such a call yields [exc |-> e, val |-> v] where    *)
(* e = "none" on a normal return and the exception's class name otherwise  *)
(* (val is then Zero and carries no meaning).                              *)
(***************************************************************************)
EXTENDS Integers, Sequences, FiniteSets, TLC

VARIABLES
    \* ---- Proof.generate (proof.py:70-137)
    pc,                     \* "loop" | "returned" | "raised"
    exc,                    \* class of the exception that left generate, or "none"
    listing,                \* number of entries os.listdir returned
    idx,                    \* entries of the listing the for loop has consumed
    proof_response_object,  \* the dict built by generate
    input_data,             \* the local input_data: the record loaded last
    prev_object,            \* history: proof_response_object before the last record was scored
    \* ---- calculate_quality_score / calculate_authenticity_score called on one bundle
    bundle,                 \* the record handed to the two scorers
    q_result,               \* outcome of calculate_quality_score(bundle), or pending
    a_result,               \* outcome of calculate_authenticity_score(bundle), or pending
    \* ---- tier functions called on counts
    tier_in,                \* the arguments
    tier_out,               \* the results
    \* ---- calculate_ownership_score (proof.py:211-236)
    own_in,                 \* jwt_token, data and the validator's answer
    own_out,                \* outcome of the call
    validator_posts,        \* number of requests.post calls issued to the validator
    \* ---- extract_input (__main__.py:112-122)
    fs,                     \* the input directory: name -> content
    pending,                \* names of the os.listdir snapshot not yet visited
    x_started,              \* whether os.listdir has been evaluated
    \* ---- calculate_watch_score (proof.py:271-299)
    watch_in,               \* the csv rows handed to calculate_watch_score
    watch_out               \* outcome of the call: interval counts and overall score

genVars   == <<pc, exc, listing, idx, proof_response_object, input_data, prev_object>>
scoreVars == <<bundle, q_result, a_result>>
tierVars  == <<tier_in, tier_out>>
ownVars   == <<own_in, own_out>>
xVars     == <<fs, pending, x_started>>
watchVars == <<watch_in, watch_out>>
vars      == <<genVars, scoreVars, tierVars, ownVars, validator_posts, xVars, watchVars>>

-----------------------------------------------------------------------------
(* Bounds of the model *)

\* counts handed to the tier functions range over 0..MaxCount
MaxCount == 11
\* length of the bundles enumerated exhaustively for the scorers
MaxBundleLen == 2
\* length of the bundles made of one contribution repeated
MaxRepeat == 16
\* number of entries of the input directory read by generate
MaxFiles == 2
\* length of the bundles held by the record files generate reads
MaxDirBundleLen == 2
\* number of members of an archive
MaxMembers == 1

-----------------------------------------------------------------------------
(* Exact rationals *)

RECURSIVE GCD(_, _)
GCD(a, b) == IF b = 0 THEN a ELSE GCD(b, a % b)

Abs(n) == IF n < 0 THEN -n ELSE n

\* n/d in lowest terms, d > 0
Rat(n, d) ==
    LET g == GCD(Abs(n), Abs(d))
        s == IF d < 0 THEN -1 ELSE 1
    IN  <<(s * n) \div g, (s * d) \div g>>

Zero == <<0, 1>>
One  == <<1, 1>>
RInt(n) == <<n, 1>>

RAdd(x, y) == Rat(x[1] * y[2] + y[1] * x[2], x[2] * y[2])
RMul(x, y) == Rat(x[1] * y[1], x[2] * y[2])
RDivInt(x, n) == Rat(x[1], x[2] * n)
RLeq(x, y) == x[1] * y[2] <= y[1] * x[2]
RLt(x, y)  == x[1] * y[2] <  y[1] * x[2]

Ok(v)     == [exc |-> "none", val |-> v]
Raise(e)  == [exc |-> e, val |-> Zero]
Pending   == [exc |-> "pending", val |-> Zero]

-----------------------------------------------------------------------------
(* The points table, proof.py:44-60 *)

points ==
    [ YOUTUBE_SUBSCRIBERS          |-> 50,
      YOUTUBE_CHANNEL_DATA         |-> 50,
      YOUTUBE_CREATOR_PLAYLIST     |-> 50,
      YOUTUBE_STUDIO               |-> 50,
      AMAZON_PRIME_VIDEO           |-> 50,
      AMAZON_ORDER_HISTORY         |-> 50,
      SPOTIFY_PLAYLIST             |-> 50,
      SPOTIFY_HISTORY              |-> 50,
      NETFLIX_HISTORY              |-> 50,
      NETFLIX_FAVORITE             |-> 50,
      TWITTER_USERINFO             |-> 50,
      FARCASTER_USERINFO           |-> 50,
      COINMARKETCAP_USER_WATCHLIST |-> 50,
      LINKEDIN_USER_INFO           |-> 50,
      TRIP_USER_DETAILS            |-> 50 ]

RECURSIVE SumOver(_, _)
SumOver(f, S) ==
    IF S = {} THEN 0
    ELSE LET k == CHOOSE k \in S : TRUE IN f[k] + SumOver(f, S \ {k})

\* sum(points_dict.values())
calculate_max_points(points_dict) == SumOver(points_dict, DOMAIN points_dict)

-----------------------------------------------------------------------------
(* Tier functions, proof.py:257-266, 302-329.                              *)
(* max_point * 0.5 and max_point * 0.1 are kept exact: max_point/2 and     *)
(* max_point/10.                                                           *)

Half  == <<1, 2>>
Tenth == <<1, 10>>

get_watch_history_score(count, task_subtype) ==
    LET max_point == points[task_subtype] IN
    IF count >= 10 THEN RInt(max_point)
    ELSE IF 4 <= count /\ count <= 9 THEN RMul(RInt(max_point), Half)
    ELSE IF 1 <= count /\ count <= 3 THEN RMul(RInt(max_point), Tenth)
    ELSE Zero

\* get_order_history_score with the two paying lower tiers exchanged
get_order_history_score_swapped(orderCount, task_subtype) ==
    LET max_point == points[task_subtype] IN
    IF orderCount >= 10 THEN RInt(max_point)
    ELSE IF 5 <= orderCount /\ orderCount <= 9 THEN RMul(RInt(max_point), Tenth)
    ELSE IF 1 <= orderCount /\ orderCount <= 4 THEN RMul(RInt(max_point), Half)
    ELSE Zero

\* get_order_history_score with the limits of get_watch_history_score
get_order_history_score_watch(orderCount, task_subtype) ==
    get_watch_history_score(orderCount, task_subtype)

get_order_history_score(orderCount, task_subtype) ==
    LET max_point == points[task_subtype] IN
    IF orderCount >= 10 THEN RInt(max_point)
    ELSE IF 5 <= orderCount /\ orderCount <= 9 THEN RMul(RInt(max_point), Half)
    ELSE IF 1 <= orderCount /\ orderCount <= 4 THEN RMul(RInt(max_point), Tenth)
    ELSE Zero

get_coins_pairs_score(coins_count, pairs_count, task_subtype) ==
    LET max_point   == points[task_subtype]
        total_count == coins_count + pairs_count
    IN
    IF total_count >= 10 THEN RInt(max_point)
    ELSE IF 4 <= total_count /\ total_count <= 9 THEN RMul(RInt(max_point), Half)
    ELSE IF 1 <= total_count /\ total_count <= 3 THEN RMul(RInt(max_point), Tenth)
    ELSE Zero

-----------------------------------------------------------------------------
(* calculate_watch_score, proof.py:271-299.                                *)
(* A row of the csv is its 'Date' text "dd/mm/yy", kept as the three       *)
(* numbers [d, m, y] the format '%d/%m/%y' reads.  pd.to_datetime turns it *)
(* into a calendar day; the model uses the day's proleptic Gregorian       *)
(* ordinal, so that differences are numbers of days.                       *)

\* %y: 00..68 -> 2000..2068, 69..99 -> 1969..1999
FullYear(y) == IF y <= 68 THEN 2000 + y ELSE 1900 + y

IsLeap(year) == (year % 4 = 0) /\ ((year % 100 # 0) \/ (year % 400 = 0))

DaysInMonth(m, year) ==
    IF m = 2 THEN (IF IsLeap(year) THEN 29 ELSE 28)
    ELSE IF m \in {4, 6, 9, 11} THEN 30 ELSE 31

RECURSIVE DaysBeforeMonth(_, _)
DaysBeforeMonth(m, year) ==
    IF m <= 1 THEN 0 ELSE DaysInMonth(m - 1, year) + DaysBeforeMonth(m - 1, year)

ValidDate(t) ==
    /\ t.y \in 0..99
    /\ t.m \in 1..12
    /\ t.d >= 1 /\ t.d <= DaysInMonth(t.m, FullYear(t.y))

\* pd.to_datetime(text, format='%d/%m/%y') for a valid date
to_datetime(t) ==
    LET year == FullYear(t.y)
        p    == year - 1
    IN  365 * p + (p \div 4) - (p \div 100) + (p \div 400)
        + DaysBeforeMonth(t.m, year) + t.d

SeqMin(s) == CHOOSE x \in {s[i] : i \in DOMAIN s} : \A j \in DOMAIN s : x <= s[j]
SeqMax(s) == CHOOSE x \in {s[i] : i \in DOMAIN s} : \A j \in DOMAIN s : x >= s[j]

\* len(pd.date_range(start, end, freq='15D')): start, start+15, ... while <= end
IntervalCount(start_date, end_date) == ((end_date - start_date) \div 15) + 1

\* the loop of lines 286-291: one count per pair of consecutive interval starts
interval_counts(dates) ==
    LET start_date == SeqMin(dates)
        end_date   == SeqMax(dates)
        n          == IntervalCount(start_date, end_date)
    IN  [i \in 1..(n - 1) |->
            Cardinality({j \in DOMAIN dates :
                /\ dates[j] >= start_date + 15 * (i - 1)
                /\ dates[j] <  start_date + 15 * i})]

RECURSIVE RSum(_)
RSum(s) == IF s = <<>> THEN Zero ELSE RAdd(s[1], RSum(Tail(s)))

\* the overall score returned by calculate_watch_score (first component)
calculate_watch_score(watch_data, task_subtype) ==
    IF watch_data = <<>> THEN Raise("KeyError")          \* df['Date'] on an empty frame
    ELSE IF \E i \in DOMAIN watch_data : ~ValidDate(watch_data[i])
    THEN Raise("ValueError")                             \* pd.to_datetime rejects the text
    ELSE
    LET dates  == [i \in DOMAIN watch_data |-> to_datetime(watch_data[i])]
        counts == interval_counts(dates)
        interval_scores ==
            [i \in DOMAIN counts |-> get_watch_history_score(counts[i], task_subtype)]
    IN  IF Len(interval_scores) > 0
        THEN Ok(RDivInt(RSum(interval_scores), Len(interval_scores)))
        ELSE Ok(Zero)

-----------------------------------------------------------------------------
(* Contributions.                                                          *)
(* securedSharedData is kept as what the scorers read from it: the 'csv'   *)
(* rows, and the lengths of 'orders', 'coins' and 'pairs' (a missing key   *)
(* reads as length 0, lines 392-399).                                      *)
(* witnesses is a text or a list.  A text is a sequence of pieces, so that *)
(* str.endswith is a suffix test; a list is the value WitnessList.         *)

Contribution(st, csv, orders, coins, pairs, w) ==
    [ taskSubType |-> st,
      securedSharedData |-> [csv |-> csv, orders |-> orders, coins |-> coins, pairs |-> pairs],
      witnesses |-> w ]

WitnessList == <<"[list]">>

\* proof.py:202
valid_domains ==
    { <<"wss://", "witness.", "reclaimprotocol.org", "/ws">>,
      <<"reclaimprotocol.org">> }

\* str.endswith(suffix)
EndsWith(s, suffix) ==
    /\ Len(suffix) <= Len(s)
    /\ SubSeq(s, Len(s) - Len(suffix) + 1, Len(s)) = suffix

-----------------------------------------------------------------------------
(* calculate_quality_score, proof.py:372-424 *)

\* The body of one loop iteration, lines 382-412: the value that
\* final_scores[task_subtype] holds at line 412.  final_scores starts empty
\* and gets a key only in the four handled branches, each time just before
\* line 412 reads that same key; for any other subtype the key was never
\* written and the read raises KeyError.
ContributionScore(contribution) ==
    LET task_subtype      == contribution.taskSubType
        securedSharedData == contribution.securedSharedData
    IN
    IF task_subtype = "NETFLIX_HISTORY"
    THEN calculate_watch_score(securedSharedData.csv, task_subtype)
    ELSE IF task_subtype = "COINMARKETCAP_USER_WATCHLIST"
    THEN Ok(get_coins_pairs_score(securedSharedData.coins, securedSharedData.pairs,
                                  task_subtype))
    ELSE IF task_subtype \in {"AMAZON_ORDER_HISTORY", "TRIP_USER_DETAILS"}
    THEN LET order_count == securedSharedData.orders IN
         IF order_count = 0 THEN Ok(Zero)
         ELSE Ok(get_order_history_score(order_count, task_subtype))
    ELSE IF task_subtype \in {"FARCASTER_USERINFO", "TWITTER_USERINFO", "LINKEDIN_USER_INFO"}
    THEN Ok(RInt(points[task_subtype]))
    ELSE Raise("KeyError")

\* the for loop of lines 380-412 from contribution i on, with the running total
RECURSIVE QualityLoop(_, _, _)
QualityLoop(contributions, i, total_secured_score) ==
    IF i > Len(contributions) THEN Ok(total_secured_score)
    ELSE LET r == ContributionScore(contributions[i]) IN
         IF r.exc # "none" THEN r
         ELSE QualityLoop(contributions, i + 1, RAdd(total_secured_score, r.val))

calculate_quality_score(data) ==
    LET loop == QualityLoop(data.contribution, 1, Zero)
        total_max_score == calculate_max_points(points)
    IN
    IF loop.exc # "none" THEN loop
    ELSE IF total_max_score > 0 THEN Ok(RDivInt(loop.val, total_max_score))
    ELSE Ok(Zero)

-----------------------------------------------------------------------------
(* calculate_authenticity_score, proof.py:200-209 *)

\* round(x, 5), ties to even
Round5(x) ==
    LET scaled == x[1] * 100000
        q      == scaled \div x[2]
        r2     == 2 * (scaled % x[2])
        up     == (r2 > x[2]) \/ (r2 = x[2] /\ q % 2 = 1)
    IN  Rat(IF up THEN q + 1 ELSE q, 100000)

calculate_authenticity_score(data_list) ==
    LET contributions == data_list.contribution IN
    IF \E i \in DOMAIN contributions : contributions[i].witnesses = WitnessList
    THEN Raise("AttributeError")                      \* a list has no endswith
    ELSE
    LET valid_count ==
            Cardinality({i \in DOMAIN contributions :
                \E d \in valid_domains : EndsWith(contributions[i].witnesses, d)})
    IN  IF Len(contributions) > 0
        THEN Ok(Round5(Rat(valid_count, Len(contributions))))
        ELSE Ok(Zero)

-----------------------------------------------------------------------------
(* calculate_final_score, proof.py:239-250 *)

ScoreAttributes == <<"authenticity", "uniqueness", "quality", "ownership">>

calculate_final_score(obj) ==
    LET present == SelectSeq(ScoreAttributes, LAMBDA a : a \in DOMAIN obj)
        valid_attributes == [i \in DOMAIN present |-> obj[present[i]]]
    IN  IF valid_attributes = <<>> THEN Zero
        ELSE RDivInt(RSum(valid_attributes), Len(valid_attributes))

-----------------------------------------------------------------------------
(* calculate_ownership_score, proof.py:211-236.                            *)
(* jwt_token is [is_str, text]; a None walletAddress is PyNone.  The       *)
(* validator's answer is [net |-> TRUE] when requests.post itself fails    *)
(* (connection error, timeout, bad URL) and an HTTP status otherwise.      *)
(* The result carries posts, the number of requests.post calls made.       *)

PyNone == "<None>"

Falsy(text) == text \in {"", PyNone}

\* the exception raised inside the try block, lines 219-227, or "none"
RaisedInTry(answer) ==
    IF answer.net THEN "ConnectionError"
    ELSE IF 400 <= answer.status /\ answer.status < 600 THEN "HTTPError"  \* raise_for_status
    ELSE "none"

\* requests.exceptions: every class below derives from RequestException
IsRequestException(class) == class \in {"RequestException", "ConnectionError", "HTTPError"}

OwnOutcome(e, v, n) == [exc |-> e, val |-> v, posts |-> n]

\* calculate_ownership_score that checks the data only after the request
calculate_ownership_score_late(jwt_token, data, answer) ==
    IF Falsy(jwt_token.text) \/ ~jwt_token.is_str
    THEN OwnOutcome("ValueError", Zero, 0)
    ELSE IF Falsy(data.walletAddress) \/ Len(data.subType) = 0
    THEN OwnOutcome("ValueError", Zero, 1)
    ELSE OwnOutcome("none", IF ~answer.net /\ answer.status = 200 THEN One ELSE Zero, 1)

calculate_ownership_score(jwt_token, data, answer) ==
    IF Falsy(jwt_token.text) \/ ~jwt_token.is_str
    THEN OwnOutcome("ValueError", Zero, 0)
    ELSE IF Falsy(data.walletAddress) \/ Len(data.subType) = 0
    THEN OwnOutcome("ValueError", Zero, 0)
    ELSE
    LET raised == RaisedInTry(answer) IN
    IF raised = "none"
    THEN OwnOutcome("none", IF answer.status = 200 THEN One ELSE Zero, 1)
    ELSE IF IsRequestException(raised)             \* first except clause, line 228
    THEN OwnOutcome("none", Zero, 1)
    ELSE IF raised = "HTTPError"                   \* second except clause, line 232
    THEN (IF answer.status = 400 THEN OwnOutcome("none", Zero, 1)
          ELSE OwnOutcome("ValueError", Zero, 1))
    ELSE OwnOutcome(raised, Zero, 1)

-----------------------------------------------------------------------------
(* Inputs *)

TrustedRelay   == <<"wss://", "witness.", "reclaimprotocol.org", "/ws">>
TrustedDomain  == <<"https://", "reclaimprotocol.org">>
UntrustedHost  == <<"https://", "other.example.org">>
UntrustedPath  == <<"reclaimprotocol.org", "/ws", "?x">>
NoWitness      == <<>>                             \* contribution.get('witnesses', '')

Day(d, m, y) == [d |-> d, m |-> m, y |-> y]

\* all sequences over S of length 0..n
RECURSIVE SeqsUpTo(_, _)
SeqsUpTo(S, n) ==
    IF n = 0 THEN {<<>>}
    ELSE LET shorter == SeqsUpTo(S, n - 1) IN
         shorter \cup {Append(s, x) : s \in {t \in shorter : Len(t) = n - 1}, x \in S}

Record(contributions) == [walletAddress |-> "0xWallet", contribution |-> contributions]

NoRecord == Record(<<>>)

\* payloads (subtype, csv, orders, coins, pairs) of the bundles handed to the scorers
ScorePayloads ==
    { <<"AMAZON_ORDER_HISTORY", <<>>, n, 0, 0>> : n \in {0, 7, 10} }
    \cup { <<"TRIP_USER_DETAILS", <<>>, 4, 0, 0>> }
    \cup { <<"COINMARKETCAP_USER_WATCHLIST", <<>>, 0, c[1], c[2]>> :
             c \in {<<0, 0>>, <<2, 2>>, <<10, 0>>} }
    \cup { <<"NETFLIX_HISTORY", csv, 0, 0, 0>> :
             csv \in { <<>>,
                       <<Day(1, 1, 24), Day(16, 1, 24)>>,
                       <<Day(20, 2, 24), Day(1, 3, 24), Day(25, 3, 24)>>,
                       <<Day(31, 2, 24)>> } }
    \cup { <<st, <<>>, 0, 0, 0>> :
             st \in {"FARCASTER_USERINFO", "TWITTER_USERINFO", "LINKEDIN_USER_INFO"} }
    \cup { <<st, <<>>, 0, 0, 0>> : st \in {"SPOTIFY_HISTORY", "UNLISTED_SUBTYPE"} }

ScoreWitnesses ==
    {TrustedRelay, TrustedDomain, UntrustedHost, UntrustedPath, NoWitness, WitnessList}

\* every payload with a trusted witness, and one payload with every witness
ScoreContribs ==
    { Contribution(p[1], p[2], p[3], p[4], p[5], TrustedRelay) : p \in ScorePayloads }
    \cup { Contribution("TWITTER_USERINFO", <<>>, 0, 0, 0, w) : w \in ScoreWitnesses }

\* every short bundle, and every contribution repeated up to MaxRepeat times
ScoreBundles ==
    { Record(s) : s \in SeqsUpTo(ScoreContribs, MaxBundleLen) }
    \cup { Record([i \in 1..n |-> c]) : c \in ScoreContribs, n \in 1..MaxRepeat }

-----------------------------------------------------------------------------
(* The scorers called on one bundle *)

ScoreIdle == bundle = NoRecord /\ q_result = Pending /\ a_result = Pending
TierIdle  == tier_in = <<>> /\ tier_out = <<>>
OwnIdle   == own_in = <<>> /\ own_out = <<>>
GenIdle   ==
    /\ pc = "idle" /\ exc = [class |-> "none", at |-> "none"] /\ listing = 0 /\ idx = 0
    /\ proof_response_object = <<>> /\ input_data = NoRecord /\ prev_object = <<>>
ExtractIdle == fs = <<>> /\ pending = {} /\ x_started = FALSE
WatchIdle == watch_in = <<>> /\ watch_out = <<>>

InitScore ==
    /\ bundle \in ScoreBundles
    /\ q_result = Pending /\ a_result = Pending
    /\ TierIdle /\ OwnIdle /\ GenIdle /\ ExtractIdle /\ WatchIdle /\ validator_posts = 0

CallQuality ==
    /\ q_result = Pending
    /\ q_result' = calculate_quality_score(bundle)
    /\ UNCHANGED <<bundle, a_result, genVars, tierVars, ownVars, validator_posts, xVars, watchVars>>

CallAuthenticity ==
    /\ a_result = Pending
    /\ a_result' = calculate_authenticity_score(bundle)
    /\ UNCHANGED <<bundle, q_result, genVars, tierVars, ownVars, validator_posts, xVars, watchVars>>

NextScore == CallQuality \/ CallAuthenticity

SpecScore == InitScore /\ [][NextScore]_vars

-----------------------------------------------------------------------------
(* The tier functions called on counts *)

TierSubTypes == {"AMAZON_ORDER_HISTORY", "TRIP_USER_DETAILS", "COINMARKETCAP_USER_WATCHLIST"}
PairCounts == {0, 1, 5}

TierPending == [fn |-> "pending", r1 |-> Zero, r2 |-> Zero]

InitTier ==
    /\ tier_in \in [task_subtype : TierSubTypes, n1 : 0..MaxCount, n2 : 0..MaxCount,
                    pairs1 : PairCounts, pairs2 : PairCounts]
    /\ tier_out = TierPending
    /\ ScoreIdle /\ OwnIdle /\ GenIdle /\ ExtractIdle /\ WatchIdle /\ validator_posts = 0

CallOrderScore ==
    /\ tier_out = TierPending
    /\ tier_out' = [fn |-> "get_order_history_score",
                    r1 |-> get_order_history_score(tier_in.n1, tier_in.task_subtype),
                    r2 |-> get_order_history_score(tier_in.n2, tier_in.task_subtype)]
    /\ UNCHANGED <<tier_in, genVars, scoreVars, ownVars, validator_posts, xVars, watchVars>>

CallCoinsPairsScore ==
    /\ tier_out = TierPending
    /\ tier_out' = [fn |-> "get_coins_pairs_score",
                    r1 |-> get_coins_pairs_score(tier_in.n1, tier_in.pairs1, tier_in.task_subtype),
                    r2 |-> get_coins_pairs_score(tier_in.n2, tier_in.pairs2, tier_in.task_subtype)]
    /\ UNCHANGED <<tier_in, genVars, scoreVars, ownVars, validator_posts, xVars, watchVars>>

\* the dispatch of calculate_quality_score on a count-based contribution
\* holding n1 (resp. n2) orders
CallContributionScore ==
    /\ tier_out = TierPending
    /\ tier_in.task_subtype \in {"AMAZON_ORDER_HISTORY", "TRIP_USER_DETAILS"}
    /\ tier_out' =
         [fn |-> "contribution",
          r1 |-> ContributionScore(Contribution(tier_in.task_subtype, <<>>, tier_in.n1,
                                                0, 0, TrustedRelay)).val,
          r2 |-> ContributionScore(Contribution(tier_in.task_subtype, <<>>, tier_in.n2,
                                                0, 0, TrustedRelay)).val]
    /\ UNCHANGED <<tier_in, genVars, scoreVars, ownVars, validator_posts, xVars, watchVars>>

NextTier == CallOrderScore \/ CallCoinsPairsScore \/ CallContributionScore

SpecTier == InitTier /\ [][NextTier]_vars

-----------------------------------------------------------------------------
(* calculate_ownership_score called once *)

Tokens == { [is_str |-> TRUE,  text |-> "jwt"],
            [is_str |-> TRUE,  text |-> ""],
            [is_str |-> FALSE, text |-> "jwt"],      \* e.g. bytes
            [is_str |-> FALSE, text |-> PyNone] }

Answers == { [net |-> TRUE, status |-> 0] }
           \cup { [net |-> FALSE, status |-> s] : s \in {200, 204, 400, 500} }

OwnPending == OwnOutcome("pending", Zero, 0)

InitOwn ==
    /\ own_in \in [jwt_token : Tokens,
                   data : [walletAddress : {"0xWallet", "", PyNone},
                           subType : {<<>>, <<"TWITTER_USERINFO">>,
                                      <<"TWITTER_USERINFO", "NETFLIX_HISTORY">>}],
                   answer : Answers]
    /\ own_out = OwnPending
    /\ validator_posts = 0
    /\ ScoreIdle /\ TierIdle /\ GenIdle /\ ExtractIdle /\ WatchIdle

CallOwnership ==
    /\ own_out = OwnPending
    /\ own_out' = calculate_ownership_score(own_in.jwt_token, own_in.data, own_in.answer)
    /\ validator_posts' = validator_posts + own_out'.posts
    /\ UNCHANGED <<own_in, genVars, scoreVars, tierVars, xVars, watchVars>>

NextOwn == CallOwnership

SpecOwn == InitOwn /\ [][NextOwn]_vars

-----------------------------------------------------------------------------
(* Proof.generate, proof.py:70-137.                                        *)
(*                                                                         *)
(* The for loop walks the os.listdir snapshot; the model draws each entry  *)
(* when the loop reaches it.  An entry is                                  *)
(*   [name, utf8, wellformed, data]                                        *)
(* name: "decrypted_file.json", "record.json" (any other name ending in    *)
(* .json) or "other" (any other name); utf8: whether the bytes decode as   *)
(* UTF-8; wellformed: whether the decoded text is JSON; data: the parsed   *)
(* record.  Records are objects with the keys the scorers index.           *)

NoExc == [class |-> "none", at |-> "none"]

\* lines 74-77; load_config sets dlp_id to 24
InitialObject == ("dlp_id" :> 24) @@ ("valid" :> TRUE)

\* obj[key] = value on a dict
Put(obj, key, value) == (key :> value) @@ obj

DirContribs ==
    { Contribution("TWITTER_USERINFO", <<>>, 0, 0, 0, w) :
        w \in {TrustedRelay, UntrustedHost, WitnessList} }
    \cup { Contribution("AMAZON_ORDER_HISTORY", <<>>, 7, 0, 0, TrustedRelay),
           Contribution("SPOTIFY_HISTORY", <<>>, 0, 0, 0, TrustedRelay) }

DirRecords == { Record(s) : s \in SeqsUpTo(DirContribs, MaxDirBundleLen) }

Entry(name, utf8, wellformed, data) ==
    [name |-> name, utf8 |-> utf8, wellformed |-> wellformed, data |-> data]

DirEntries ==
    { Entry("record.json", TRUE, TRUE, d) : d \in DirRecords }
    \cup { Entry(n, u, FALSE, NoRecord) : n \in {"record.json", "decrypted_file.json"},
                                          u \in BOOLEAN }
    \cup { Entry(n, u, TRUE, Record(<<>>)) : n \in {"decrypted_file.json"}, u \in BOOLEAN }
    \cup { Entry("record.json", FALSE, TRUE, Record(<<>>)),
           Entry("other", TRUE, FALSE, NoRecord) }

\* what requests.get brings back in download_file: a failure of the request
\* (no network, HTTP error status), or a body
Downloads ==
    { [failed |-> TRUE, utf8 |-> FALSE, wellformed |-> FALSE] }
    \cup [failed : {FALSE}, utf8 : BOOLEAN, wellformed : BOOLEAN]

\* download_file, lines 139-174: the class of the exception that leaves it,
\* or "none".  RequestException is caught (line 173).  Otherwise the body is
\* saved as decrypted_file.json and read back with json.load (line 168), and
\* line 171 then reads self.proof_response_object, an attribute that Proof
\* never sets (__init__ sets self.proof_response).
download_file(response) ==
    IF response.failed THEN "none"
    ELSE IF ~response.utf8 THEN "UnicodeDecodeError"
    ELSE IF ~response.wellformed THEN "JSONDecodeError"
    ELSE "AttributeError"

\* lines 86-104 on decrypted_file.json: the exception that leaves the block
DecryptedBlock(entry) ==
    IF entry.utf8
    THEN (IF ~entry.wellformed THEN "JSONDecodeError"   \* not a UnicodeDecodeError: uncaught
          ELSE "AttributeError")                        \* line 94, self.proof_response_object
    ELSE "none"     \* latin-1 retry: whatever it raises is caught by except Exception

\* lines 109-110: open(..., encoding='utf-8') and json.load
LoadRecord(entry) ==
    IF ~entry.utf8 THEN [exc |-> "UnicodeDecodeError", data |-> NoRecord]
    ELSE IF ~entry.wellformed THEN [exc |-> "JSONDecodeError", data |-> NoRecord]
    ELSE [exc |-> "none", data |-> entry.data]

\* SetSubScores that keeps the sub-scores an earlier record stored
SetSubScores_keep(obj, quality, authenticity) ==
    obj @@ ("uniqueness" :> One) @@ ("quality" :> quality) @@ ("ownership" :> One)
        @@ ("authenticity" :> authenticity)

\* lines 118-122: the four sub-scores are stored (ownership is the literal 1.0)
SetSubScores(obj, quality, authenticity) ==
    ("uniqueness" :> One) @@ ("quality" :> quality) @@ ("ownership" :> One)
        @@ ("authenticity" :> authenticity) @@ obj

\* lines 124-125
SetValid(obj) ==
    IF RLt(obj["authenticity"], One) THEN Put(obj, "valid", FALSE) ELSE obj

\* line 128
SetScore(obj) == Put(obj, "score", calculate_final_score(obj))

\* lines 118-128 on a loaded record: the dict afterwards, or the exception
ProcessRecord(obj, data) ==
    LET q == calculate_quality_score(data)
        a == calculate_authenticity_score(data)
    IN  IF q.exc # "none"
        THEN [exc |-> [class |-> q.exc, at |-> "calculate_quality_score"],
              obj |-> Put(obj, "uniqueness", One)]
        ELSE IF a.exc # "none"
        THEN [exc |-> [class |-> a.exc, at |-> "calculate_authenticity_score"],
              obj |-> ("uniqueness" :> One) @@ ("quality" :> q.val) @@ ("ownership" :> One)
                          @@ obj]
        ELSE [exc |-> NoExc, obj |-> SetScore(SetValid(SetSubScores(obj, q.val, a.val)))]

InitGen ==
    /\ pc = "loop" /\ exc = NoExc
    /\ listing \in 1..MaxFiles
    /\ idx = 0
    /\ proof_response_object = InitialObject
    /\ input_data = NoRecord
    /\ prev_object = InitialObject
    /\ validator_posts = 0
    /\ ScoreIdle /\ TierIdle /\ OwnIdle /\ ExtractIdle /\ WatchIdle

genOther == <<scoreVars, tierVars, ownVars, validator_posts, xVars, watchVars>>

\* an iteration in which download_file raises (line 83)
DownloadRaises ==
    /\ pc = "loop" /\ idx < listing
    /\ \E response \in Downloads :
         /\ download_file(response) # "none"
         /\ exc' = [class |-> download_file(response), at |-> "download_file"]
    /\ pc' = "raised"
    /\ idx' = idx + 1
    /\ UNCHANGED <<listing, proof_response_object, input_data, prev_object, genOther>>

\* the download fails quietly and the entry is no .json file: nothing is done
SkipEntry ==
    /\ pc = "loop" /\ idx < listing
    /\ \E response \in Downloads, entry \in DirEntries :
         /\ download_file(response) = "none"
         /\ entry.name = "other"
    /\ idx' = idx + 1
    /\ UNCHANGED <<pc, exc, listing, proof_response_object, input_data, prev_object, genOther>>

\* the entry is decrypted_file.json and lines 86-104 raise
DecryptedFileRaises ==
    /\ pc = "loop" /\ idx < listing
    /\ \E response \in Downloads, entry \in DirEntries :
         /\ download_file(response) = "none"
         /\ entry.name = "decrypted_file.json"
         /\ DecryptedBlock(entry) # "none"
         /\ exc' = [class |-> DecryptedBlock(entry), at |-> "decrypted_file"]
         /\ input_data' = IF entry.wellformed THEN entry.data ELSE input_data
    /\ pc' = "raised"
    /\ idx' = idx + 1
    /\ UNCHANGED <<listing, proof_response_object, prev_object, genOther>>

\* the entry is a .json file and lines 109-110 raise
LoadRaises ==
    /\ pc = "loop" /\ idx < listing
    /\ \E response \in Downloads, entry \in DirEntries :
         /\ download_file(response) = "none"
         /\ entry.name \in {"record.json", "decrypted_file.json"}
         /\ entry.name = "decrypted_file.json" => DecryptedBlock(entry) = "none"
         /\ LoadRecord(entry).exc # "none"
         /\ exc' = [class |-> LoadRecord(entry).exc, at |-> "json.load"]
         \* line 101: the latin-1 retry binds input_data before line 102 raises
         /\ input_data' = IF entry.name = "decrypted_file.json" /\ entry.wellformed
                           THEN entry.data ELSE input_data
    /\ pc' = "raised"
    /\ idx' = idx + 1
    /\ UNCHANGED <<listing, proof_response_object, prev_object, genOther>>

\* the entry is a .json file that loads, and one of the scorers raises
ScoringRaises ==
    /\ pc = "loop" /\ idx < listing
    /\ \E response \in Downloads, entry \in DirEntries :
         /\ download_file(response) = "none"
         /\ entry.name = "record.json"
         /\ LoadRecord(entry).exc = "none"
         /\ LET r == ProcessRecord(proof_response_object, LoadRecord(entry).data) IN
            /\ r.exc # NoExc
            /\ exc' = r.exc
            /\ proof_response_object' = r.obj
            /\ input_data' = LoadRecord(entry).data
    /\ pc' = "raised"
    /\ idx' = idx + 1
    /\ UNCHANGED <<listing, prev_object, genOther>>

\* the entry is a .json file that loads and is scored
ScoreRecord ==
    /\ pc = "loop" /\ idx < listing
    /\ \E response \in Downloads, entry \in DirEntries :
         /\ download_file(response) = "none"
         /\ entry.name = "record.json"
         /\ LoadRecord(entry).exc = "none"
         /\ LET r == ProcessRecord(proof_response_object, LoadRecord(entry).data) IN
            /\ r.exc = NoExc
            /\ proof_response_object' = r.obj
            /\ input_data' = LoadRecord(entry).data
    /\ prev_object' = proof_response_object
    /\ idx' = idx + 1
    /\ UNCHANGED <<pc, exc, listing, genOther>>

\* line 137
Return ==
    /\ pc = "loop" /\ idx = listing
    /\ pc' = "returned"
    /\ UNCHANGED <<exc, listing, idx, proof_response_object, input_data, prev_object, genOther>>

Next ==
    \/ DownloadRaises
    \/ SkipEntry
    \/ DecryptedFileRaises
    \/ LoadRaises
    \/ ScoringRaises
    \/ ScoreRecord
    \/ Return

Init == InitGen

Spec == Init /\ [][Next]_vars

-----------------------------------------------------------------------------
(* extract_input, __main__.py:112-122.                                     *)
(*                                                                         *)
(* The input directory is fs: name -> content.  A content is absent, plain *)
(* data, or a zip archive with its members in archive order; a member is   *)
(* [name, data].  zipfile.is_zipfile looks at the content, not the name.   *)

Names == {"a.json", "b.zip", "c.zip"}
PlainData == {"p"}
MemberData == {"m1", "m2"}

Absent     == [kind |-> "absent", data |-> "", members |-> <<>>]
Plain(d)   == [kind |-> "data",   data |-> d,  members |-> <<>>]
Archive(m) == [kind |-> "zip",    data |-> "", members |-> m]

Members  == [name : Names, data : MemberData]
Contents == {Absent} \cup {Plain(d) : d \in PlainData}
            \cup {Archive(m) : m \in SeqsUpTo(Members, MaxMembers)}

is_zipfile(content) == content.kind = "zip"

\* ZipFile.extractall(INPUT_DIR): each member in turn is written to
\* INPUT_DIR/<member name>, opened for writing whatever is already there
RECURSIVE extractall(_, _)
extractall(dir, members) ==
    IF members = <<>> THEN dir
    ELSE extractall([dir EXCEPT ![Head(members).name] = Plain(Head(members).data)],
                    Tail(members))

\* run() calls extract_input only on a directory that holds an entry (line 97-100)
InitExtract ==
    /\ fs \in [Names -> Contents]
    /\ \E n \in Names : fs[n] # Absent
    /\ pending = {}
    /\ x_started = FALSE
    /\ validator_posts = 0
    /\ ScoreIdle /\ TierIdle /\ OwnIdle /\ GenIdle /\ WatchIdle

xOther == <<genVars, scoreVars, tierVars, ownVars, validator_posts, watchVars>>

\* os.listdir(INPUT_DIR), line 117: evaluated once, before the first iteration
ListDir ==
    /\ ~x_started
    /\ x_started' = TRUE
    /\ pending' = {n \in Names : fs[n] # Absent}
    /\ UNCHANGED <<fs, xOther>>

\* an iteration on an entry that is no archive; os.listdir fixes no order
VisitPlainFile ==
    /\ x_started
    /\ \E input_filename \in pending :
         /\ ~is_zipfile(fs[input_filename])
         /\ pending' = pending \ {input_filename}
    /\ UNCHANGED <<fs, x_started, xOther>>

\* an iteration on an archive, lines 120-122
ExtractArchive ==
    /\ x_started
    /\ \E input_filename \in pending :
         /\ is_zipfile(fs[input_filename])
         /\ fs' = extractall(fs, fs[input_filename].members)
         /\ pending' = pending \ {input_filename}
    /\ UNCHANGED <<x_started, xOther>>

NextExtract == ListDir \/ VisitPlainFile \/ ExtractArchive

SpecExtract == InitExtract /\ [][NextExtract]_vars

-----------------------------------------------------------------------------
(* calculate_watch_score called on one csv.                                *)
(* The csv holds, for each day of WatchDays, a number of rows drawn from   *)
(* WatchCounts; calculate_watch_score reads the rows only through min,     *)
(* max and the per-interval filters, so their order plays no part.         *)

WatchDays   == <<Day(1, 1, 24), Day(15, 1, 24), Day(16, 1, 24), Day(20, 2, 24), Day(1, 3, 24)>>
WatchCounts == {0, 1, 4, 10}

\* n rows of the day d
Rows(d, n) == [i \in 1..n |-> d]

\* the csv with per[k] rows of WatchDays[k]
RECURSIVE CsvOf(_, _)
CsvOf(per, k) ==
    IF k > Len(WatchDays) THEN <<>>
    ELSE Rows(WatchDays[k], per[k]) \o CsvOf(per, k + 1)

WatchPending == [exc |-> "pending", counts |-> <<>>, score |-> Zero]

InitWatch ==
    /\ watch_in \in {CsvOf(per, 1) : per \in [DOMAIN WatchDays -> WatchCounts]}
    /\ watch_out = WatchPending
    /\ validator_posts = 0
    /\ ScoreIdle /\ TierIdle /\ OwnIdle /\ GenIdle /\ ExtractIdle

\* interval_counts as calculate_watch_score holds it at line 291
WatchIntervalCounts(watch_data) ==
    interval_counts([i \in DOMAIN watch_data |-> to_datetime(watch_data[i])])

CallWatchScore ==
    /\ watch_out = WatchPending
    /\ watch_out' =
         [exc    |-> calculate_watch_score(watch_in, "NETFLIX_HISTORY").exc,
          counts |-> IF calculate_watch_score(watch_in, "NETFLIX_HISTORY").exc = "none"
                     THEN WatchIntervalCounts(watch_in) ELSE <<>>,
          score  |-> calculate_watch_score(watch_in, "NETFLIX_HISTORY").val]
    /\ UNCHANGED <<watch_in, genVars, scoreVars, tierVars, ownVars, validator_posts, xVars>>

NextWatch == CallWatchScore

SpecWatch == InitWatch /\ [][NextWatch]_vars

-----------------------------------------------------------------------------
(* Claims *)

\* the subtypes the if/elif chain of calculate_quality_score has a branch for
HandledSubTypes ==
    { "NETFLIX_HISTORY", "COINMARKETCAP_USER_WATCHLIST", "AMAZON_ORDER_HISTORY",
      "TRIP_USER_DETAILS", "FARCASTER_USERINFO", "TWITTER_USERINFO", "LINKEDIN_USER_INFO" }

\* s without its i-th element
RemoveAt(s, i) == SubSeq(s, 1, i - 1) \o SubSeq(s, i + 1, Len(s))

\* C1: when generate returns after scoring at least one record file, valid is
\* false if the authenticity stored in the verdict is below 1.0 and true
\* otherwise, whatever the earlier record files were.
C1_ValidReflectsAuthenticity ==
    (pc = "returned" /\ "authenticity" \in DOMAIN proof_response_object)
        => (proof_response_object["valid"]
              = ~RLt(proof_response_object["authenticity"], One))

\* C2: whenever the scorers return, the quality q satisfies 0 <= q <= 1 and
\* the authenticity a satisfies 0 <= a <= 1, for every bundle, bundles with
\* several contributions of one subtype included.
C2_ScoresNormalized ==
    /\ q_result.exc = "none" => (RLeq(Zero, q_result.val) /\ RLeq(q_result.val, One))
    /\ a_result.exc = "none" => (RLeq(Zero, a_result.val) /\ RLeq(a_result.val, One))

\* C3: no step of extract_input changes or removes a file that exists in the
\* input directory: an archive member whose name is taken goes elsewhere.
C3_NeverOverwrites ==
    [][\A n \in Names : fs[n] # Absent => fs'[n] = fs[n]]_vars

\* C4: a contribution whose subtype the dispatch does not handle adds 0:
\* calculate_quality_score returns normally, with the value it returns for
\* the bundle without that contribution.
C4_UnhandledScoresZero ==
    \A i \in DOMAIN bundle.contribution :
        LET without == calculate_quality_score(Record(RemoveAt(bundle.contribution, i))) IN
        ( /\ q_result # Pending
          /\ bundle.contribution[i].taskSubType \notin HandledSubTypes
          /\ without.exc = "none" )
        => (q_result.exc = "none" /\ q_result.val = without.val)

\* C5: a record file that fails to parse is skipped: generate is never left
\* by the exception json.load raises on a record file.
C5_ParseFailureSkipped ==
    ~(pc = "raised" /\ exc.at = "json.load")

\* C6: when generate returns after scoring record files, quality,
\* authenticity and score of the verdict are the values of the record file
\* processed last, taken alone.
C6_LastWins ==
    (pc = "returned" /\ "quality" \in DOMAIN proof_response_object) =>
        LET q == calculate_quality_score(input_data).val
            a == calculate_authenticity_score(input_data).val
        IN  /\ proof_response_object["quality"] = q
            /\ proof_response_object["authenticity"] = a
            /\ proof_response_object["score"] = RDivInt(RAdd(RAdd(a, q), RInt(2)), 4)

\* C6 witness: generate returned after two record files whose qualities and
\* authenticities differ.
C6_Witness ==
    /\ pc = "returned"
    /\ "quality" \in DOMAIN prev_object
    /\ prev_object["quality"] # proof_response_object["quality"]
    /\ prev_object["authenticity"] # proof_response_object["authenticity"]
    /\ RLt(Zero, prev_object["quality"])

\* C7: the ownership stored in the verdict is the result of a check with the
\* validator: a verdict holds an ownership only after a request was sent.
C7_OwnershipFromValidator ==
    "ownership" \in DOMAIN proof_response_object => validator_posts >= 1

\* C8: calculate_ownership_score called with an empty token, an empty
\* walletAddress or an empty subtype list raises the validation error, and
\* no request is sent.
C8_ValidationBeforeNetwork ==
    ( /\ own_out # OwnPending
      /\ \/ own_in.jwt_token.text = ""
         \/ own_in.data.walletAddress = ""
         \/ own_in.data.subType = <<>> )
    => (own_out.exc = "ValueError" /\ validator_posts = 0)

\* C8 witness: the call with a token, a subtype and an empty walletAddress,
\* while the validator would have answered 200.
C8_Witness ==
    /\ own_out.exc = "ValueError"
    /\ own_in.jwt_token = [is_str |-> TRUE, text |-> "jwt"]
    /\ own_in.data.walletAddress = ""
    /\ own_in.data.subType # <<>>
    /\ own_in.answer = [net |-> FALSE, status |-> 200]

\* C9: the tier score never decreases when the count grows, for
\* get_order_history_score (orders) and get_coins_pairs_score (coins + pairs).
C9_TierMonotone ==
    /\ (tier_out.fn = "get_order_history_score" /\ tier_in.n1 <= tier_in.n2)
         => RLeq(tier_out.r1, tier_out.r2)
    /\ (tier_out.fn = "get_coins_pairs_score"
          /\ tier_in.n1 + tier_in.pairs1 <= tier_in.n2 + tier_in.pairs2)
         => RLeq(tier_out.r1, tier_out.r2)

\* C9 witness: 4 orders and 5 orders were scored, and 5 scored strictly more.
C9_Witness ==
    /\ tier_out.fn = "get_order_history_score"
    /\ tier_in.n1 = 4 /\ tier_in.n2 = 5
    /\ RLt(tier_out.r1, tier_out.r2)

\* the four tiers with lower limits full, half and 1 for the three paying
\* tiers, at maximum M
Tiered(n, M, full, half) ==
    IF n >= full THEN RInt(M)
    ELSE IF n >= half THEN Rat(M, 2)
    ELSE IF n >= 1 THEN Rat(M, 10)
    ELSE Zero

\* C10 as stated: a count-based contribution with n items scores M for
\* n >= 10, M*0.5 for 4..9, M*0.1 for 1..3 and 0 for 0.
C10_WatchThresholds ==
    tier_out.fn = "contribution" =>
        /\ tier_out.r1 = Tiered(tier_in.n1, points[tier_in.task_subtype], 10, 4)
        /\ tier_out.r2 = Tiered(tier_in.n2, points[tier_in.task_subtype], 10, 4)

\* C10 amended: a count-based contribution with n items scores M for
\* n >= 10, M*0.5 for 5..9, M*0.1 for 1..4 and 0 for 0.
C10_OrderThresholds ==
    tier_out.fn = "contribution" =>
        /\ tier_out.r1 = Tiered(tier_in.n1, points[tier_in.task_subtype], 10, 5)
        /\ tier_out.r2 = Tiered(tier_in.n2, points[tier_in.task_subtype], 10, 5)

\* C10 witness: an AMAZON_ORDER_HISTORY contribution with 7 orders scored 25
\* and one with 4 orders scored 5.
C10_Witness ==
    /\ tier_out.fn = "contribution"
    /\ tier_in.task_subtype = "AMAZON_ORDER_HISTORY"
    /\ tier_in.n1 = 7 /\ tier_out.r1 = RInt(25)
    /\ tier_in.n2 = 4 /\ tier_out.r2 = RInt(5)

\* C12: calculate_ownership_score called with a token, a walletAddress and
\* subtypes returns 1.0 on HTTP 200, 0.0 on HTTP 400 and 0.0 on a network
\* failure, and raises on every other HTTP error status.
C12_OtherHttpErrorsRaise ==
    ( /\ own_out # OwnPending
      /\ own_in.jwt_token = [is_str |-> TRUE, text |-> "jwt"]
      /\ own_in.data.walletAddress = "0xWallet"
      /\ own_in.data.subType # <<>> )
    => /\ own_in.answer.net => (own_out.exc = "none" /\ own_out.val = Zero)
       /\ (~own_in.answer.net /\ own_in.answer.status = 200)
            => (own_out.exc = "none" /\ own_out.val = One)
       /\ (~own_in.answer.net /\ own_in.answer.status = 400)
            => (own_out.exc = "none" /\ own_out.val = Zero)
       /\ (~own_in.answer.net /\ own_in.answer.status > 400 /\ own_in.answer.status < 600)
            => own_out.exc # "none"

RECURSIVE SeqSum(_)
SeqSum(s) == IF s = <<>> THEN 0 ELSE s[1] + SeqSum(Tail(s))

\* C11: for a csv with at least one event, the 15-day windows starting at
\* the earliest event cover the range up to the latest event, so every
\* event is counted in exactly one window (the window counts add up to the
\* number of events), and the score is the mean of the windows' tier scores
\* (>= 10 -> M, 4..9 -> M*0.5, 1..3 -> M*0.1, 0 -> 0).
C11_WindowsCoverEveryEvent ==
    (watch_out.exc = "none" /\ Len(watch_in) >= 1) =>
        /\ SeqSum(watch_out.counts) = Len(watch_in)
        /\ Len(watch_out.counts) >= 1
        /\ watch_out.score =
             RDivInt(RSum([i \in DOMAIN watch_out.counts |->
                              Tiered(watch_out.counts[i], points["NETFLIX_HISTORY"], 10, 4)]),
                     Len(watch_out.counts))

====
